---- MODULE Spec2Model ----
(***************************************************************************)
(* gitlabprojects.py: list the projects a user is a member of with a       *)
(* speculative parallel pagination (get_all_pages), probe each project for *)
(* the user's commits on a second thread pool (has_user_commits), sort the *)
(* matches and write them to a CSV file.                                   *)
(*                                                                         *)
(* The main thread is a program counter pc; every pool task (one per page, *)
(* one per project) has its own state.  The GitLab server is the           *)
(* environment: it picks the response of a request when the request        *)
(* completes.                                                              *)
(***************************************************************************)
EXTENDS Integers, Sequences, FiniteSets, TLC

(* ---- bounds of the model (the program's values are 200, 20 and 100) ---- *)
\* pages requested speculatively: range(1, MAX_PAGES + 1)
MAX_PAGES == 3
\* ThreadPoolExecutor(max_workers=...) of both pools
max_workers == 2
\* "per_page": most items the endpoint puts on one page
per_page == 2
\* most project records the listing endpoint hands out in one run
MaxProjects == 3

(* ---- data ---- *)
\* A str is a tuple of characters (digits); "" is <<>>.
RECURSIVE StrLess(_, _)
\* Python's str comparison a < b: lexicographic, a proper prefix is smaller.
StrLess(a, b) ==
    IF b = <<>> THEN FALSE
    ELSE IF a = <<>> THEN TRUE
    ELSE IF Head(a) /= Head(b) THEN Head(a) < Head(b)
    ELSE StrLess(Tail(a), Tail(b))

\* The project dicts of the listing (simple=true).  A dict is a function
\* from its keys; the third project has no "last_activity_at" key.
Projects ==
    { [id |-> 1, last_activity_at |-> <<2>>],
      [id |-> 2, last_activity_at |-> <<1, 9>>],
      [id |-> 3] }

RECURSIVE SeqsUpTo(_, _)
SeqsUpTo(S, n) ==
    IF n = 0 THEN {<<>>}
    ELSE LET shorter == SeqsUpTo(S, n - 1)
         IN  shorter \cup {Append(s, x) : s \in {t \in shorter : Len(t) = n - 1}, x \in S}

\* JSON arrays of project dicts one listing page can hold: a run of the
\* listing, which the endpoint orders by id.
PageBodies ==
    {b \in SeqsUpTo(Projects, per_page) :
        \A i \in 1..Len(b), j \in 1..Len(b) : i < j => b[i].id < b[j].id}

\* JSON arrays the commits endpoint returns under per_page = 1.
CommitBodies == {<<>>, <<1>>}

\* HTTP statuses a final response carries (requests follows 301/302/303/307/
\* 308 redirects itself; 300 stands for a 3xx it hands back).
Statuses == {200, 300, 404}

\* The outcome of session.get: delivered = FALSE is a raised transport
\* exception (timeout, connection error); otherwise a response with a
\* status and a body that is JSON (json = TRUE, body its value) or not.
Response(d, s, j, b) == [delivered |-> d, status |-> s, json |-> j, body |-> b]
TransportError == Response(FALSE, 0, FALSE, <<>>)
NoResponse == Response(FALSE, 0, FALSE, <<>>)

\* What a page request can get, one response for each way through
\* fetch_page: a 200 with any page of items; a 3xx that requests hands back
\* (here with an empty array); a body that is not JSON; a 4xx, whose body is
\* never read; an exception of the transport.
PageResponses ==
    {Response(TRUE, 200, TRUE, b) : b \in PageBodies}
        \cup {Response(TRUE, 300, TRUE, <<>>), Response(TRUE, 200, FALSE, <<>>),
              Response(TRUE, 404, TRUE, <<>>), TransportError}

\* What a commits request can get.
ProbeResponses ==
    {Response(TRUE, s, TRUE, b) : s \in Statuses, b \in CommitBodies}
        \cup {Response(TRUE, s, FALSE, <<>>) : s \in Statuses}
        \cup {TransportError}

\* r.raise_for_status(): HTTPError for a 4xx or 5xx status.
RaiseForStatus(r) == r.status >= 400 /\ r.status < 600

\* fetch_page raises: session.get raised, raise_for_status raised, or
\* r.json() raised on a body that is not JSON.
FetchPageRaises(r) == ~r.delivered \/ RaiseForStatus(r) \/ ~r.json

\* As AfterPrimary, without the early `return True`.
AfterPrimaryNoReturn(r) ==
    IF ~r.delivered THEN "raised"
    ELSE IF r.status = 200 /\ ~r.json THEN "raised"
    ELSE "fallback"

\* has_user_commits after its first request: `r.status_code == 200 and
\* r.json()` is truthy -> return True; r.json() is only called, and only
\* raises, under status 200; anything else goes on to the second request.
AfterPrimary(r) ==
    IF ~r.delivered THEN "raised"
    ELSE IF r.status /= 200 THEN "fallback"
    ELSE IF ~r.json THEN "raised"
    ELSE IF r.body /= <<>> THEN "true"
    ELSE "fallback"

\* As AfterFallback, with the operands of `and` swapped: r.json() is
\* evaluated first, whatever the status.
AfterFallbackJsonFirst(r) ==
    IF ~r.delivered THEN "raised"
    ELSE IF ~r.json THEN "raised"
    ELSE IF r.status = 200 /\ r.body /= <<>> THEN "true"
    ELSE "false"

\* As AfterFallback, without the test of the status.
AfterFallbackAnyStatus(r) ==
    IF ~r.delivered THEN "raised"
    ELSE IF ~r.json THEN "raised"
    ELSE IF r.body /= <<>> THEN "true"
    ELSE "false"

\* has_user_commits after its second request:
\* return r.status_code == 200 and bool(r.json())
AfterFallback(r) ==
    IF ~r.delivered THEN "raised"
    ELSE IF r.status /= 200 THEN "false"
    ELSE IF ~r.json THEN "raised"
    ELSE IF r.body /= <<>> THEN "true"
    ELSE "false"

\* p.get("last_activity_at", "")
SortKey(p) == IF "last_activity_at" \in DOMAIN p THEN p.last_activity_at ELSE <<>>

VARIABLES
    pc,           \* position of the main thread
    pageState,    \* page -> state of its future in get_all_pages
    pageResp,     \* page -> the response its request got
    pageYielded,  \* pages whose future as_completed has yielded
    results,      \* get_all_pages: results
    pageLog,      \* page -> number of progress lines the running get_all_pages printed for it
    all_projects, \* module level: all_projects
    probeState,   \* i -> state of the future of has_user_commits(all_projects[i]["id"])
    probeYielded, \* the i whose future as_completed has yielded
    checked,      \* module level: checked
    committed,    \* module level: committed, as the i of the dicts it references
    probeLog,     \* the progress lines of Step 2, in order
    outfile,      \* the CSV file: whether it exists, and its data rows
    call          \* one call of has_user_commits on its own, with its responses

pageVars == <<pageState, pageResp, pageYielded, results, pageLog>>
probeVars == <<probeState, probeYielded, checked, committed, probeLog>>
vars == <<pc, pageVars, all_projects, probeVars, outfile, call>>

\* As Pages, for range(MAX_PAGES + 1).
PagesFromZero == 0..MAX_PAGES

Pages == 1..MAX_PAGES

IdleCall ==
    [project_id |-> 0, at |-> "idle", primary |-> NoResponse,
     fallback |-> NoResponse, fallbacks |-> 0]

Init ==
    /\ pc = "submit_pages"
    /\ pageState = [p \in Pages |-> "unsubmitted"]
    /\ pageResp = [p \in Pages |-> NoResponse]
    /\ pageYielded = {}
    /\ results = <<>>
    /\ pageLog = [p \in Pages |-> 0]
    /\ all_projects = <<>>
    /\ probeState = <<>>
    /\ probeYielded = {}
    /\ checked = 0
    /\ committed = <<>>
    /\ probeLog = <<>>
    /\ outfile = [exists |-> FALSE, rows |-> <<>>]
    /\ call = IdleCall

(* ---- the thread pools ---- *)
Done == {"returned", "raised", "true", "false"}

\* Tasks a worker thread is executing.
\* As Running, for a worker that does not take another item after its first.
RunningNeverFreed(st) == {t \in DOMAIN st : st[t] \notin {"unsubmitted", "queued"}}

Running(st) == {t \in DOMAIN st : st[t] \in {"running", "primary", "fallback"}}

\* As WorkerFree, for a pool that starts a thread per work item.
WorkerAlwaysFree(st) == TRUE

\* ThreadPoolExecutor: at most max_workers threads exist, each runs one
\* work item at a time.
WorkerFree(st) == Cardinality(Running(st)) < max_workers

\* The work queue is FIFO: a worker takes the oldest queued item.
NextQueued(st, t) ==
    /\ st[t] = "queued"
    /\ \A u \in DOMAIN st : st[u] = "queued" => t <= u

\* As PoolDrained, for shutdown(wait=False).
PoolNotAwaited(st) == TRUE

\* Executor.__exit__ is shutdown(wait=True): it joins the worker threads,
\* which first run every item still in the queue.
PoolDrained(st) == \A t \in DOMAIN st : st[t] \in Done

RECURSIVE SumLen(_, _)
SumLen(f, S) ==
    IF S = {} THEN 0
    ELSE LET t == CHOOSE u \in S : TRUE
         IN  Len(f[t].body) + SumLen(f, S \ {t})

(* ---- Step 1: get_all_pages ---- *)
\* pool.submit(fetch_page, url, params, p) for p in range(1, MAX_PAGES + 1)
SubmitPage ==
    /\ pc = "submit_pages"
    /\ \E p \in Pages :
          /\ pageState[p] = "unsubmitted"
          /\ \A q \in Pages : q < p => pageState[q] /= "unsubmitted"
          /\ pageState' = [pageState EXCEPT ![p] = "queued"]
          /\ pc' = IF p = MAX_PAGES THEN "consume_pages" ELSE pc
    /\ UNCHANGED <<pageResp, pageYielded, results, pageLog, all_projects, probeVars, outfile, call>>

\* A worker thread takes the page's work item and calls fetch_page, which
\* issues session.get.
StartPage(p) ==
    /\ NextQueued(pageState, p)
    /\ WorkerFree(pageState)
    /\ pageState' = [pageState EXCEPT ![p] = "running"]
    /\ UNCHANGED <<pc, pageResp, pageYielded, results, pageLog, all_projects, probeVars, outfile, call>>

\* The request of page p ends with r; fetch_page returns (page, r.json())
\* or raises, and the future is set.
\* As FinishPage, for a fetch_page that extends results itself.
FinishPageAppends(p, r) ==
    /\ pageState[p] = "running"
    /\ Len(r.body) + SumLen(pageResp, Pages \ {p}) <= MaxProjects
    /\ pageResp' = [pageResp EXCEPT ![p] = r]
    /\ pageState' = [pageState EXCEPT ![p] =
                        IF FetchPageRaises(r) THEN "raised" ELSE "returned"]
    /\ results' = IF FetchPageRaises(r) THEN results ELSE results \o r.body
    /\ UNCHANGED <<pc, pageYielded, pageLog, all_projects, probeVars, outfile, call>>

FinishPage(p, r) ==
    /\ pageState[p] = "running"
    /\ Len(r.body) + SumLen(pageResp, Pages \ {p}) <= MaxProjects
    /\ pageResp' = [pageResp EXCEPT ![p] = r]
    /\ pageState' = [pageState EXCEPT ![p] =
                        IF FetchPageRaises(r) THEN "raised" ELSE "returned"]
    /\ UNCHANGED <<pc, pageYielded, results, pageLog, all_projects, probeVars, outfile, call>>

\* As Extend, for `results = data`.
ExtendAssign(res, data) == data

\* results.extend(data)
Extend(res, data) == res \o data

\* As AfterResult, with the exception caught and dropped inside the loop.
AfterResultSwallowed(state) == "consume_pages"

\* pg, data = future.result(): the exception of a failed fetch_page is
\* raised again in the main thread and, uncaught, leaves the loop.
AfterResult(state) == IF state = "raised" THEN "pages_unwind" ELSE "consume_pages"

\* As Truthy, for `if data is not None:`.
TruthyNotNone(data) == TRUE

\* `if data:` on a list
Truthy(data) == data /= <<>>

\* One turn of `for future in as_completed(futures)`: future.result()
\* re-raises the task's exception; otherwise a non-empty page is logged
\* and appended.
ConsumePage(p) ==
    /\ pc = "consume_pages"
    /\ p \notin pageYielded
    /\ pageState[p] \in Done
    /\ pageYielded' = pageYielded \cup {p}
    /\ pc' = AfterResult(pageState[p])
    /\ IF pageState[p] = "returned" /\ Truthy(pageResp[p].body)
          THEN /\ pageLog' = [pageLog EXCEPT ![p] = @ + 1]
               /\ results' = Extend(results, pageResp[p].body)
          ELSE UNCHANGED <<results, pageLog>>
    /\ UNCHANGED <<pageState, pageResp, all_projects, probeVars, outfile, call>>

\* As PagesLoopEnd, for a loop that breaks at the first empty page and a
\* pool that is not waited for.
PagesLoopEndAtEmptyPage ==
    /\ pc = "consume_pages"
    /\ \E p \in pageYielded : pageState[p] = "returned" /\ pageResp[p].body = <<>>
    /\ pc' = "pages_return"
    /\ UNCHANGED <<pageVars, all_projects, probeVars, outfile, call>>

\* The loop is over; the with block exits and get_all_pages is at
\* `return results`.
PagesLoopEnd ==
    /\ pc = "consume_pages"
    /\ pageYielded = Pages
    /\ PoolDrained(pageState)
    /\ pc' = "pages_return"
    /\ UNCHANGED <<pageVars, all_projects, probeVars, outfile, call>>

\* An exception is leaving the with block: __exit__ waits for the pool,
\* then the exception leaves get_all_pages and, uncaught, ends the script.
PagesRaise ==
    /\ pc = "pages_unwind"
    /\ PoolDrained(pageState)
    /\ pc' = "pages_raised"
    /\ UNCHANGED <<pageVars, all_projects, probeVars, outfile, call>>

\* all_projects = get_all_pages(...): the call's frame (futures, results)
\* is gone, and what the call printed is no longer followed.  Step 2 starts
\* with committed = [] and checked = 0.
AssignAllProjects ==
    /\ pc = "pages_return"
    /\ all_projects' = results
    /\ results' = <<>>
    /\ pageResp' = [p \in Pages |-> NoResponse]
    /\ pageYielded' = {}
    /\ probeState' = [i \in 1..Len(results) |-> "unsubmitted"]
    /\ pc' = IF results = <<>> THEN "consume_probes" ELSE "submit_probes"
    /\ pageLog' = [p \in Pages |-> 0]
    /\ UNCHANGED <<pageState, probeYielded, checked, committed, probeLog,
                   outfile, call>>

(* ---- Step 2: the probing stage ---- *)
Tasks == DOMAIN probeState

\* pool.submit(has_user_commits, p["id"]) for p in all_projects
SubmitProbe ==
    /\ pc = "submit_probes"
    /\ \E i \in Tasks :
          /\ probeState[i] = "unsubmitted"
          /\ \A j \in Tasks : j < i => probeState[j] /= "unsubmitted"
          /\ probeState' = [probeState EXCEPT ![i] = "queued"]
          /\ pc' = IF i = Len(all_projects) THEN "consume_probes" ELSE pc
    /\ UNCHANGED <<pageVars, all_projects, probeYielded, checked, committed,
                   probeLog, outfile, call>>

\* A worker thread takes the work item and calls has_user_commits, which
\* issues its first request.
StartProbe(i) ==
    /\ NextQueued(probeState, i)
    /\ WorkerFree(probeState)
    /\ probeState' = [probeState EXCEPT ![i] = "primary"]
    /\ UNCHANGED <<pc, pageVars, all_projects, probeYielded, checked, committed,
                   probeLog, outfile, call>>

\* The first request ends with r: the call returns True, raises, or issues
\* the second request.
PrimaryResponse(i, r) ==
    /\ probeState[i] = "primary"
    /\ probeState' = [probeState EXCEPT ![i] = AfterPrimary(r)]
    /\ UNCHANGED <<pc, pageVars, all_projects, probeYielded, checked, committed,
                   probeLog, outfile, call>>

\* The second request ends with r: the call returns or raises.
FallbackResponse(i, r) ==
    /\ probeState[i] = "fallback"
    /\ probeState' = [probeState EXCEPT ![i] = AfterFallback(r)]
    /\ UNCHANGED <<pc, pageVars, all_projects, probeYielded, checked, committed,
                   probeLog, outfile, call>>

\* A progress line of Step 2, "  [checked/total] mark path": its counter and
\* its mark (the total and the path are left out).
Line(n, mark) == [n |-> n, mark |-> mark]

\* try: if future.result(): ... else: ... except Exception as e: ...
Outcome(state) ==
    CASE state = "true" -> "match"
      [] state = "false" -> "nomatch"
      [] OTHER -> "failed"

\* As AfterProbeResult, without the except clause.
AfterProbeResultUncaught(state) ==
    IF state = "raised" THEN "probes_raised" ELSE "consume_probes"

\* The try statement around future.result() catches Exception: the loop
\* goes on whatever the probe did.
AfterProbeResult(state) == "consume_probes"

\* As ConsumeProbe, with a probe that raised put back on the queue.
ConsumeProbeRetry(i) ==
    /\ pc = "consume_probes"
    /\ i \in Tasks \ probeYielded
    /\ probeState[i] \in Done
    /\ checked' = checked + 1
    /\ committed' = IF Outcome(probeState[i]) = "match"
                        THEN Append(committed, i) ELSE committed
    /\ probeLog' = Append(probeLog, Line(checked + 1, Outcome(probeState[i])))
    /\ IF probeState[i] = "raised"
          THEN /\ probeState' = [probeState EXCEPT ![i] = "queued"]
               /\ UNCHANGED probeYielded
          ELSE /\ probeYielded' = probeYielded \cup {i}
               /\ UNCHANGED probeState
    /\ UNCHANGED <<pc, pageVars, all_projects, outfile, call>>

\* As ConsumeProbe, with `checked += 1` after future.result() in the try.
ConsumeProbeCountsResults(i) ==
    LET n == IF probeState[i] = "raised" THEN checked ELSE checked + 1
    IN  /\ pc = "consume_probes"
        /\ i \in Tasks \ probeYielded
        /\ probeState[i] \in Done
        /\ probeYielded' = probeYielded \cup {i}
        /\ checked' = n
        /\ committed' = IF Outcome(probeState[i]) = "match"
                            THEN Append(committed, i) ELSE committed
        /\ probeLog' = Append(probeLog, Line(n, Outcome(probeState[i])))
        /\ pc' = AfterProbeResult(probeState[i])
        /\ UNCHANGED <<pageVars, all_projects, probeState, outfile, call>>

\* One turn of `for future in as_completed(futures)` of Step 2.
ConsumeProbe(i) ==
    /\ pc = "consume_probes"
    /\ i \in Tasks \ probeYielded
    /\ probeState[i] \in Done
    /\ probeYielded' = probeYielded \cup {i}
    /\ checked' = checked + 1
    /\ committed' = IF Outcome(probeState[i]) = "match"
                        THEN Append(committed, i) ELSE committed
    /\ probeLog' = Append(probeLog, Line(checked + 1, Outcome(probeState[i])))
    /\ pc' = AfterProbeResult(probeState[i])
    /\ UNCHANGED <<pageVars, all_projects, probeState, outfile, call>>

\* The loop is over and the with block exits.
ProbesLoopEnd ==
    /\ pc = "consume_probes"
    /\ probeYielded = Tasks
    /\ PoolDrained(probeState)
    /\ pc' = "sort"
    /\ UNCHANGED <<pageVars, all_projects, probeVars, outfile, call>>

(* ---- the report ---- *)
\* The key of the dict committed's entry i references.
KeyOf(i) == SortKey(all_projects[i])

\* As InsertDesc, without reverse=True: ascending.
InsertAsc(s, x) ==
    LET before == {k \in 1..Len(s) : ~StrLess(KeyOf(x), KeyOf(s[k]))}
        n == IF before = {} THEN 0 ELSE CHOOSE k \in before : \A m \in before : m <= k
    IN  SubSeq(s, 1, n) \o <<x>> \o SubSeq(s, n + 1, Len(s))

\* x goes behind every entry whose key is not smaller: descending and stable.
InsertDesc(s, x) ==
    LET before == {k \in 1..Len(s) : ~StrLess(KeyOf(s[k]), KeyOf(x))}
        n == IF before = {} THEN 0 ELSE CHOOSE k \in before : \A m \in before : m <= k
    IN  SubSeq(s, 1, n) \o <<x>> \o SubSeq(s, n + 1, Len(s))

RECURSIVE SortDesc(_)
\* list.sort(key=..., reverse=True)
SortDesc(s) ==
    IF s = <<>> THEN <<>>
    ELSE InsertDesc(SortDesc(SubSeq(s, 1, Len(s) - 1)), s[Len(s)])

\* committed.sort(key=lambda p: p.get("last_activity_at", ""), reverse=True)
SortCommitted ==
    /\ pc = "sort"
    /\ committed' = SortDesc(committed)
    /\ pc' = "write"
    /\ UNCHANGED <<pageVars, all_projects, probeState, probeYielded, checked,
                   probeLog, outfile, call>>

\* The entries of s before the first whose dict has no "last_activity_at".
RECURSIVE RowsWritten(_)
RowsWritten(s) ==
    IF s = <<>> THEN <<>>
    ELSE IF "last_activity_at" \notin DOMAIN all_projects[Head(s)] THEN <<>>
    ELSE <<all_projects[Head(s)]>> \o RowsWritten(Tail(s))

\* open(outfile, "w"), the header, one row per entry of committed;
\* p["last_activity_at"] raises KeyError for a dict without the key, which
\* closes the file and ends the script.
WriteReport ==
    /\ pc = "write"
    /\ outfile' = [exists |-> TRUE, rows |-> RowsWritten(committed)]
    /\ pc' = IF Len(RowsWritten(committed)) = Len(committed) THEN "saved" ELSE "write_raised"
    /\ UNCHANGED <<pageVars, all_projects, probeVars, call>>

Next ==
    \/ SubmitPage
    \/ \E p \in Pages : StartPage(p)
    \/ \E p \in Pages, r \in PageResponses : FinishPage(p, r)
    \/ \E p \in Pages : ConsumePage(p)
    \/ PagesLoopEnd
    \/ PagesRaise
    \/ AssignAllProjects
    \/ SubmitProbe
    \/ \E i \in Tasks : StartProbe(i)
    \/ \E i \in Tasks, r \in ProbeResponses : PrimaryResponse(i, r)
    \/ \E i \in Tasks, r \in ProbeResponses : FallbackResponse(i, r)
    \/ \E i \in Tasks : ConsumeProbe(i)
    \/ ProbesLoopEnd
    \/ SortCommitted
    \/ WriteReport

Spec == Init /\ [][Next]_vars

\* The threads are scheduled and every request ends (timeout=30, timeout=10):
\* while some step of the run is possible, one is taken.
SpecFair == Spec /\ WF_vars(Next)

(* ---- has_user_commits(project_id), one call on its own ---- *)
ProjectIds == {p.id : p \in Projects}

\* The call issues its first request.
CallStart(id) ==
    /\ call.at = "idle"
    /\ call' = [call EXCEPT !.project_id = id, !.at = "primary"]
    /\ UNCHANGED <<pc, pageVars, all_projects, probeVars, outfile>>

\* The first request ends with r.
CallPrimaryResponse(r) ==
    /\ call.at = "primary"
    /\ call' = [call EXCEPT !.primary = r, !.at = AfterPrimary(r),
                            !.fallbacks = IF AfterPrimary(r) = "fallback" THEN 1 ELSE 0]
    /\ UNCHANGED <<pc, pageVars, all_projects, probeVars, outfile>>

\* The second request ends with r.
CallFallbackResponse(r) ==
    /\ call.at = "fallback"
    /\ call' = [call EXCEPT !.fallback = r, !.at = AfterFallback(r)]
    /\ UNCHANGED <<pc, pageVars, all_projects, probeVars, outfile>>

NextCall ==
    \/ \E id \in ProjectIds : CallStart(id)
    \/ \E r \in ProbeResponses : CallPrimaryResponse(r)
    \/ \E r \in ProbeResponses : CallFallbackResponse(r)

SpecCall == Init /\ [][NextCall]_vars

(* ======================= properties ======================= *)
Count(s, x) == Cardinality({k \in 1..Len(s) : s[k] = x})

RECURSIVE CountOnPages(_, _)
\* How often x is on the pages 1..n, as their requests were answered.
CountOnPages(x, n) ==
    IF n = 0 THEN 0 ELSE Count(pageResp[n].body, x) + CountOnPages(x, n - 1)

TasksWith(state) == {i \in Tasks : probeState[i] = state}
LinesWith(mark) == {k \in 1..Len(probeLog) : probeLog[k].mark = mark}
Stage1 == {"submit_pages", "consume_pages", "pages_unwind", "pages_raised", "pages_return"}
Stage2 == {"submit_probes", "consume_probes", "sort", "write", "saved", "write_raised"}
Stage2Ended == {"sort", "write", "saved", "write_raised"}
Non2xx(r) == r.delivered /\ r.status \notin 200..299

\* C1: when get_all_pages returns (so no fetch failed), results holds every
\* item exactly as often as the pages 1..MAX_PAGES hold it, whatever the
\* order the fetches completed in: nothing of a non-empty page is missing
\* and nothing is there that was on no page.
C1_ResultsAreUnionOfPages ==
    pc = "pages_return" =>
        /\ \A x \in Projects : Count(results, x) = CountOnPages(x, MAX_PAGES)
        /\ \A k \in 1..Len(results) : results[k] \in Projects

\* C1 witness: pages 1 and 2 are non-empty and page 2 was consumed first.
C1_Witness ==
    /\ pc = "pages_return"
    /\ pageResp[1].body /= <<>>
    /\ pageResp[2].body /= <<>>
    /\ pageResp[1].body /= pageResp[2].body
    /\ results = pageResp[2].body \o pageResp[1].body

\* C2, as claimed: if the request of some page got a non-2xx status or no
\* response at all, get_all_pages never gets to return a result.
C2_NonSuccessNeverReturns ==
    (\E p \in Pages : pageState[p] \in Done
                        /\ (~pageResp[p].delivered \/ Non2xx(pageResp[p])))
        => pc /= "pages_return"

PrimaryHasItems ==
    /\ call.primary.delivered
    /\ call.primary.status = 200
    /\ call.primary.json
    /\ call.primary.body /= <<>>

\* C3: when the first request of has_user_commits comes back successfully
\* with at least one item, the call returns True and has issued no second
\* request.
C3_NoFallbackAfterPrimaryHit ==
    PrimaryHasItems => call.at = "true" /\ call.fallbacks = 0

\* C3 witness: a call that ended on such a first response.
C3_Witness == PrimaryHasItems /\ call.at = "true" /\ call.project_id = 2

\* C4: when both requests of has_user_commits got a non-2xx status, the
\* call has returned False, not raised, whatever the bodies were.
C4_FalseWhenBothNon2xx ==
    (call.at \in {"true", "false", "raised"}
        /\ Non2xx(call.primary) /\ Non2xx(call.fallback))
        => call.at = "false"

\* C4 witness: both responses are errors whose bodies are not JSON.
C4_Witness ==
    /\ call.at = "false"
    /\ call.primary = Response(TRUE, 404, FALSE, <<>>)
    /\ call.fallback = Response(TRUE, 300, FALSE, <<>>)

\* C5: the probing stage never raises, and when it has ended committed has
\* one entry per probe that returned True and only such entries (so none of
\* the failed ones), and there is one failure line per probe that raised.
C5_MatchedAndFailedCounts ==
    /\ pc \in Stage1 \cup Stage2
    /\ pc \in Stage2Ended =>
        /\ probeYielded = Tasks
        /\ Len(committed) = Cardinality(TasksWith("true"))
        /\ \A k \in 1..Len(committed) : committed[k] \in TasksWith("true")
        /\ Cardinality(LinesWith("failed")) = Cardinality(TasksWith("raised"))

\* C5 witness: M = 3 with one probe matching, one not, one raising.
C5_Witness ==
    /\ pc = "sort"
    /\ Len(all_projects) = 3
    /\ Cardinality(TasksWith("true")) = 1
    /\ Cardinality(TasksWith("false")) = 1
    /\ Cardinality(TasksWith("raised")) = 1

\* C6: the matched projects are exactly the fetched projects whose probe
\* returned True, and once sorted they, and the rows of the report, are in
\* non-increasing order of the last-activity key.
C6_MatchedSetAndOrder ==
    /\ pc \in Stage2Ended =>
          {all_projects[committed[k]] : k \in 1..Len(committed)}
              = {all_projects[i] : i \in TasksWith("true")}
    /\ pc \in {"write", "saved", "write_raised"} =>
          \A k \in 1..(Len(committed) - 1) :
              ~StrLess(KeyOf(committed[k]), KeyOf(committed[k + 1]))
    /\ outfile.exists =>
          /\ Len(outfile.rows) <= Len(committed)
          /\ \A k \in 1..Len(outfile.rows) : outfile.rows[k] = all_projects[committed[k]]

\* C6 witness: three projects on a page of two and a page of one, probes
\* True, False, True, and the third listed before the first in the report.
C6_Witness ==
    /\ pc = "saved"
    /\ Len(all_projects) = 3
    /\ all_projects[1].id = 2 /\ all_projects[2].id = 3 /\ all_projects[3].id = 1
    /\ probeState = <<"true", "false", "true">>
    /\ committed = <<3, 1>>
    /\ outfile.rows = <<all_projects[3], all_projects[1]>>

\* C7: no probe task is submitted, and so no probe request issued, before
\* every page fetch has completed and get_all_pages has returned the list.
C7_StagesSequential ==
    (\E i \in Tasks : probeState[i] /= "unsubmitted") =>
        /\ \A p \in Pages : pageState[p] = "returned"
        /\ pc \in Stage2
        /\ Len(all_projects) = Len(probeState)

\* C7 witness: a probe has its second request in flight.
C7_Witness == \E i \in Tasks : probeState[i] = "fallback"

\* C8: neither pool ever runs more tasks at once than its width.
C8_PoolWidth ==
    /\ Cardinality(Running(pageState)) <= max_workers
    /\ Cardinality(Running(probeState)) <= max_workers

\* C8 witness: the page pool is full and a submitted page waits.
C8_Witness ==
    /\ Cardinality(Running(pageState)) = max_workers
    /\ \E p \in Pages : pageState[p] = "queued"

\* C9, as claimed: once the failure of a page fetch has been observed, no
\* page fetch that has not started yet is started.
C9_NoFetchStartsAfterFailure ==
    [][pc = "pages_unwind" =>
          \A p \in Pages : pageState[p] = "queued" => pageState'[p] = "queued"]_vars

\* C9, amended: after the first observed failure no further page is
\* consumed, and the error has reached the caller only when every page
\* fetch, the queued ones included, has run to its end.
C9_ErrorLeavesAfterDrain ==
    /\ pc \in {"pages_unwind", "pages_raised"} =>
          /\ Cardinality({p \in pageYielded : pageState[p] = "raised"}) = 1
          /\ Len(results) = SumLen(pageResp, pageYielded)
    /\ pc = "pages_raised" => \A p \in Pages : pageState[p] \in Done

\* C9 witness: the error has left get_all_pages; page 1 failed and was the
\* only page consumed, the others ran to their end all the same.
C9_Witness ==
    /\ pc = "pages_raised"
    /\ pageYielded = {1}
    /\ \A p \in Pages \ {1} : pageState[p] = "returned"

\* C10: once a page fetch has failed, the run never gets past get_all_pages:
\* no probe task exists, no probe request is issued, no file is written.
C10_FailureStopsRun ==
    (\E p \in Pages : pageState[p] = "raised") =>
        /\ pc \in Stage1 \ {"pages_return"}
        /\ Tasks = {}
        /\ ~outfile.exists

\* C10 witness: the run has ended with the error of a page fetch.
C10_Witness == pc = "pages_raised" /\ \E p \in Pages : pageResp[p].status = 404

\* C11: there is one probe task per fetched project; each outcome is consumed
\* once (one count, one line per consumed future) and, once the probing has
\* begun, all of them are consumed in the end, the probes of the others
\* included when one has raised; a finished probe is never run again.
C11_EveryProjectProbedOnce ==
    /\ [](/\ pc \in Stage2 => Len(probeState) = Len(all_projects)
          /\ checked = Cardinality(probeYielded)
          /\ Len(probeLog) = Cardinality(probeYielded)
          /\ \A i \in probeYielded : probeState[i] \in {"true", "false", "raised"}
          /\ pc \in Stage2Ended => probeYielded = Tasks)
    /\ [][\A i \in Tasks :
            /\ probeState[i] \in Done => probeState'[i] = probeState[i]
            /\ i \in probeYielded => i \in probeYielded']_vars
    /\ (pc \in {"submit_probes", "consume_probes"}) ~> (pc = "sort")

\* C11 witness: three probes, the first raised, all three consumed.
C11_Witness ==
    /\ pc = "sort"
    /\ Len(all_projects) = 3
    /\ probeState[1] = "raised"
    /\ probeState[2] \in {"true", "false"}
    /\ probeState[3] \in {"true", "false"}
    /\ probeYielded = {1, 2, 3}

\* C12, as claimed: when get_all_pages returns, one progress line has been
\* printed for every page whose fetch succeeded, empty or not.
C12_OneLinePerCompletedPage ==
    pc = "pages_return" => \A p \in Pages : pageState[p] = "returned" => pageLog[p] = 1

\* C12, amended: one progress line is printed for every consumed page that
\* has items, none for an empty page and none for a page not consumed.
C12_OneLinePerNonEmptyPage ==
    \A p \in Pages :
        pageLog[p] = IF p \in pageYielded /\ pageState[p] = "returned"
                          /\ pageResp[p].body /= <<>>
                     THEN 1 ELSE 0

\* C12 witness: get_all_pages returns with a line for a page of items and
\* none for an empty page.
C12_Witness ==
    /\ pc = "pages_return"
    /\ \E p \in Pages : pageResp[p].body /= <<>> /\ pageLog[p] = 1
    /\ \E p \in Pages : pageResp[p].body = <<>> /\ pageLog[p] = 0

\* C13: the fetch tasks are those of the pages 1..MAX_PAGES, one each; a
\* page's request is issued once, from the queue, and never again; when
\* get_all_pages returns every page has been fetched and the items of all of
\* them are in results, those behind an empty page too.
C13_OneTaskPerPage ==
    /\ [](/\ DOMAIN pageState = 1..MAX_PAGES
          /\ pc = "pages_return" =>
                /\ \A p \in 1..MAX_PAGES : pageState[p] = "returned"
                /\ Len(results) = SumLen(pageResp, 1..MAX_PAGES))
    /\ [][\A p \in 1..MAX_PAGES :
            /\ pageState[p] \in {"running"} \cup Done
                  => pageState'[p] \notin {"unsubmitted", "queued"}
            /\ pageState[p] \in Done => pageState'[p] = pageState[p]
            /\ (pageState'[p] = "running" /\ pageState[p] /= "running")
                  => pageState[p] = "queued"]_vars

\* C13 witness: pages 1 and 2 are empty, page 3 is not and its items are
\* in the result.
C13_Witness ==
    /\ pc = "pages_return"
    /\ pageResp[1].body = <<>>
    /\ pageResp[2].body = <<>>
    /\ pageResp[3].body /= <<>>
    /\ results = pageResp[3].body

FallbackHasItems ==
    /\ call.fallback.delivered
    /\ call.fallback.status = 200
    /\ call.fallback.json
    /\ call.fallback.body /= <<>>

\* session.get raised, or r.json() was called (status 200) on a body that is
\* not JSON.
RequestRaises(r) == ~r.delivered \/ (r.status = 200 /\ ~r.json)

\* C14, as claimed: a call whose first request did not come back
\* successfully with an item has issued exactly one second request and has
\* returned True if that one came back successfully with an item, False
\* otherwise.
C14_FallbackDecides ==
    (call.at \in {"true", "false", "raised"} /\ ~PrimaryHasItems) =>
        /\ call.fallbacks = 1
        /\ call.at = IF FallbackHasItems THEN "true" ELSE "false"

\* C14, amended: the same, for a call in which no request raises; a request
\* that raises (no response, or status 200 with a body that is not JSON)
\* ends the call with that exception, the first one before any second
\* request is issued.
C14_FallbackDecidesUnlessRaised ==
    (call.at \in {"true", "false", "raised"} /\ ~PrimaryHasItems) =>
        IF RequestRaises(call.primary)
        THEN call.at = "raised" /\ call.fallbacks = 0
        ELSE /\ call.fallbacks = 1
             /\ call.at = IF RequestRaises(call.fallback) THEN "raised"
                          ELSE IF FallbackHasItems THEN "true"
                          ELSE "false"

\* C14 witness: the first request got a 404, the second a 200 with an item.
C14_Witness ==
    /\ call.at = "true"
    /\ call.primary.status = 404
    /\ call.fallbacks = 1
    /\ FallbackHasItems

\* C15, as claimed: no project id occurs twice in what get_all_pages returns.
C15_UniqueProjectIds ==
    pc = "pages_return" =>
        \A k \in 1..Len(results), l \in 1..Len(results) :
            k /= l => results[k].id /= results[l].id

\* A step of a pool worker: a task starts, issues its second request or ends.
WorkerStep ==
    \/ \E p \in Pages :
          /\ pageState'[p] /= pageState[p]
          /\ pageState'[p] \in {"running", "returned", "raised"}
    \/ \E i \in DOMAIN probeState \cap DOMAIN probeState' :
          /\ probeState'[i] /= probeState[i]
          /\ probeState'[i] \in {"primary", "fallback", "true", "false", "raised"}

\* C16: no step of a worker changes results, committed or checked; results
\* grows only when the main thread consumes one returned page, by that
\* page's items as one block at the end; committed and checked change only
\* when the main thread consumes one probe outcome.
C16_OnlyConsumerWrites ==
    [][/\ WorkerStep => UNCHANGED <<results, committed, checked>>
       /\ (results' /= results /\ pc' \in Stage1) =>
             \E p \in Pages \ pageYielded :
                /\ pageState[p] = "returned"
                /\ pageYielded' = pageYielded \cup {p}
                /\ results' = results \o pageResp[p].body
       /\ (checked' /= checked \/ (committed' /= committed /\ pc = "consume_probes")) =>
             \E i \in Tasks \ probeYielded :
                /\ probeYielded' = probeYielded \cup {i}
                /\ pc = "consume_probes"]_vars

\* C16 witness: two pages of items have been consumed while the fetch of a
\* third page is still running in a worker.
C16_Witness ==
    /\ pc = "consume_pages"
    /\ Cardinality(pageYielded) = 2
    /\ \A p \in pageYielded : pageResp[p].body /= <<>>
    /\ Len(results) = SumLen(pageResp, pageYielded)
    /\ \E p \in Pages : pageState[p] = "running"

\* C17, as claimed: the writing of the report never ends with an error, and
\* the file written has one row per matched project.
C17_ReportAlwaysProduced ==
    /\ pc /= "write_raised"
    /\ outfile.exists => Len(outfile.rows) = Len(committed)

\* C18: when the error has left get_all_pages no page fetch is running, and
\* none is queued or still to be submitted: every task has ended.
C18_NothingLeftAfterError ==
    pc = "pages_raised" =>
        /\ Running(pageState) = {}
        /\ \A p \in Pages : pageState[p] \notin {"unsubmitted", "queued"}

\* C18 witness: the error has left get_all_pages; a sibling fetch ended with
\* items that were never consumed.
C18_Witness ==
    /\ pc = "pages_raised"
    /\ \E p \in Pages \ pageYielded :
          pageState[p] = "returned" /\ pageResp[p].body /= <<>>

ReportStep == {"write", "saved", "write_raised"}

\* C19: under fair scheduling the run ends: get_all_pages raises, or it
\* returns with every page consumed and then every probe outcome is consumed
\* and the report step is reached; and from some moment on no task is left
\* in a queue waiting for a worker.
C19_RunTerminates ==
    /\ <>(\/ pc = "pages_raised"
          \/ pc = "pages_return" /\ pageYielded = Pages)
    /\ (pc = "pages_return") ~>
          (pc \in ReportStep /\ probeYielded = Tasks /\ checked = Len(all_projects))
    /\ <>[](/\ \A p \in Pages : pageState[p] /= "queued"
             /\ \A i \in Tasks : probeState[i] /= "queued")

\* C19 witness: more projects than workers, and the report is written.
C19_Witness ==
    /\ pc = "saved"
    /\ Len(all_projects) > max_workers
    /\ MAX_PAGES > max_workers
    /\ Len(outfile.rows) = 2

\* C20: 0 <= len(committed) <= checked <= M; the k-th progress line carries
\* the value k of checked; checked = M once the stage is over; checked never
\* decreases and grows by exactly one with every outcome consumed.
C20_CheckedCounter ==
    /\ [](/\ 0 <= Len(committed)
          /\ Len(committed) <= checked
          /\ checked <= Len(all_projects)
          /\ Len(probeLog) = checked
          /\ \A k \in 1..Len(probeLog) : probeLog[k].n = k
          /\ pc \in Stage2Ended => checked = Len(all_projects))
    /\ [][/\ checked' \in {checked, checked + 1}
          /\ probeYielded' /= probeYielded => checked' = checked + 1]_vars

\* C20 witness: three outcomes consumed, one match, one failure, one miss.
C20_Witness ==
    /\ pc = "consume_probes"
    /\ checked = 3
    /\ Len(committed) = 1
    /\ probeLog[1].mark = "failed"
    /\ probeLog[2].mark = "match"
    /\ probeLog[3].mark = "nomatch"
====
